---- MODULE Spec2Model ----
(***************************************************************************)
(* A model of the mapsims tutorial notebooks:                              *)
(*   1_foreground_cmb_releases_nersc.ipynb   (notebook 1)                  *)
(*   2_cmb_realizations.ipynb                (notebook 2)                  *)
(*   3_noise_release.ipynb                   (notebook 3)                  *)
(*   6_mapsims_CAR_noise_on-the-fly.ipynb    (notebook 6)                  *)
(*                                                                         *)
(* Three specifications share the variables:                               *)
(*   SpecPath   the release file-name templates and the noise file list;   *)
(*   SpecCells  the cells of a notebook run from top to bottom by one      *)
(*              kernel: name binding, file operations, failures;           *)
(*   SpecMaps   the map arithmetic of the cells: polarization amplitude,   *)
(*              masks and hitmap cuts, co-adding, spectra normalisation.   *)
(***************************************************************************)
EXTENDS Integers, Sequences, FiniteSets, TLC

VARIABLES
  \* ---- SpecPath
  channel,      \* the channel descriptor: telescope, tube, band
  nside,        \* notebook 3: nside = mapsims.get_default_so_resolution(channel)
  call,         \* the last str.format call: template, keyword arguments, result
  filenames,    \* notebook 3: the list filenames (<<>> while unbound)
  runs,         \* notebook 3: how often each of the two file-list cells has run
  \* ---- SpecMaps
  nb,           \* the notebook whose map cells run (0: none)
  stage,        \* the position, in MapCells(nb), of the cell executed last
  execs,        \* how many times in a row that cell has been executed
  env,          \* the kernel's namespace: the arrays bound to the names
  old,          \* env as it was before the cell executed last
  base,         \* env as it was before the first of its executions in a row
  \* ---- SpecCells
  pc,           \* the position, in Cells(nb), of the cell to execute next
  names,        \* the names bound in the kernel's namespace
  fs,           \* the release directories: the state of each file
  err,          \* the exception that stopped the execution, if any
  iolog,        \* the file operations performed so far, in order
  iop,          \* how many file operations of the current cell are done
  acc,          \* the files read so far by the current cell
  loaded,       \* for each name bound to read maps: the files they are from
  oplog         \* the map operations performed so far, in order

pathVars == <<channel, nside, call, filenames, runs>>
mapVars == <<nb, stage, execs, env, old, base>>
cellVars == <<pc, names, fs, err, iolog, iop, acc, loaded, oplog>>
vars == <<pathVars, mapVars, cellVars>>

----------------------------------------------------------------------------
(* Bounds of the model.                                                    *)

\* Realization numbers are drawn from 0..MaxNum.
MaxNum == 9999
\* A file-list cell is executed at most MaxRuns times.
MaxRuns == 2
\* A map has NPix pixels.
NPix == 2
\* A list of maps has NMaps entries (10 realizations in notebook 2, 5 noise
\* files in notebook 3).
NMaps == 2
\* A cell that transforms maps is executed at most MaxExec times in a row.
MaxExec == 2

----------------------------------------------------------------------------
(* Strings.  A TLA+ string is opaque except for \o and Len, so a string    *)
(* that the code transforms character by character (telescope.lower()) is  *)
(* a sequence of one-character strings until it is substituted.            *)

RECURSIVE StrOf(_)
StrOf(cs) == IF cs = <<>> THEN "" ELSE Head(cs) \o StrOf(Tail(cs))

UpperChars == <<"A", "L", "S", "T">>
LowerChars == <<"a", "l", "s", "t">>

\* str.lower() on one character: an upper-case letter maps to its lower-case
\* letter, anything else is kept.
LowerChar(c) ==
  IF \E i \in DOMAIN UpperChars : UpperChars[i] = c
  THEN LowerChars[CHOOSE i \in DOMAIN UpperChars : UpperChars[i] = c]
  ELSE c

LowerMutant(cs) == cs
\* str.lower()
Lower(cs) == [i \in DOMAIN cs |-> LowerChar(cs[i])]

Digit(d) == <<"0", "1", "2", "3", "4", "5", "6", "7", "8", "9">>[d + 1]

\* str(n) / format(n, "d") for n >= 0: the decimal digits, no padding.
RECURSIVE DecStr(_)
DecStr(n) == IF n < 10 THEN Digit(n) ELSE DecStr(n \div 10) \o Digit(n % 10)

\* The zero flag of a format specification: pad on the left up to the width,
\* never truncate.
RECURSIVE ZeroPad(_, _)
ZeroPad(s, width) == IF Len(s) >= width THEN s ELSE ZeroPad("0" \o s, width)

Format04dMutant(n) == ZeroPad(DecStr(n), 3)
\* format(n, "04d")
Format04d(n) == ZeroPad(DecStr(n), 4)

----------------------------------------------------------------------------
(* Templates.  A template is the sequence of its literal pieces and        *)
(* replacement fields; a field is rendered from the keyword argument of    *)
(* its name: "str" for a string argument, "int" for an integer argument    *)
(* with no format specification, "04d" for {name:04d}.                     *)

Lit(text) == [kind |-> "lit", text |-> text]
Fld(kind, name) == [kind |-> kind, name |-> name]

\* notebook 1 line 189, notebook 2 lines 69 and 193, notebook 3 line 268
filename_template == <<
  Fld("int", "nside"), Lit("/"), Fld("str", "content"), Lit("/"),
  Fld("04d", "num"), Lit("/simonsobs_"), Fld("str", "content"),
  Lit("_uKCMB_"), Fld("str", "telescope"), Fld("str", "band"),
  Lit("_nside"), Fld("int", "nside"), Lit("_"), Fld("04d", "num"),
  Lit(".fits") >>

noise_filename_templateMutant == <<
  Fld("str", "content"), Lit("/"), Fld("04d", "num"), Lit("/simonsobs_"),
  Fld("str", "content"), Lit("_uKCMB_"), Fld("str", "telescope"), Lit("_"),
  Fld("str", "band"), Lit("_nside"), Fld("int", "nside"), Lit("_"),
  Fld("04d", "num"), Lit("_"), Fld("int", "split"), Lit("_of_"),
  Fld("int", "nsplits"), Lit(".fits") >>
\* notebook 3 line 95
noise_filename_template == <<
  Fld("str", "content"), Lit("/"), Fld("04d", "num"), Lit("/simonsobs_"),
  Fld("str", "content"), Lit("_uKCMB_"), Fld("str", "tube"), Lit("_"),
  Fld("str", "band"), Lit("_nside"), Fld("int", "nside"), Lit("_"),
  Fld("04d", "num"), Lit("_"), Fld("int", "split"), Lit("_of_"),
  Fld("int", "nsplits"), Lit(".fits") >>

Render(piece, kw) ==
  CASE piece.kind = "lit" -> piece.text
    [] piece.kind = "str" -> kw[piece.name]
    [] piece.kind = "int" -> DecStr(kw[piece.name])
    [] piece.kind = "04d" -> Format04d(kw[piece.name])

\* str.format(**kw): the pieces rendered and concatenated in order; a keyword
\* argument that no field names is ignored.
RECURSIVE Format(_, _)
Format(template, kw) ==
  IF template = <<>> THEN ""
  ELSE Render(Head(template), kw) \o Format(Tail(template), kw)

\* pathlib: Path(a) / b
PathJoin(a, b) == a \o "/" \o b

----------------------------------------------------------------------------
(* Arrays.  A map of one component is a sequence of NPix pixel values; a   *)
(* map read with field=(0,1,2) is the sequence <<I, Q, U>> of three such   *)
(* maps.  Python's index i is index i + 1 here: hitmaps[0] is hitmaps[1],  *)
(* m[1] and m[2] (Q and U) are m[2] and m[3].                              *)

Pix == 1..NPix
\* field=(0,1,2): the three Stokes components I, Q, U
NComp == 3
Comp == 1..NComp

(* Pixel values are floating-point numbers.  They are modelled as integers *)
(* on a scaled grid that keeps the one property of the format the cells    *)
(* depend on: a value of magnitude FloatBig or more is representable only  *)
(* in multiples of FloatUlp, so adding a small number to hp.UNSEEN         *)
(* (-1.6375e30, here UNSEEN) rounds back to hp.UNSEEN.                     *)
UNSEEN == -1024
FloatBig == 512
FloatUlp == 64

Abs(x) == IF x < 0 THEN -x ELSE x

\* Round to nearest, ties to even, on the grid of x's magnitude.
Fl(x) ==
  IF Abs(x) < FloatBig THEN x
  ELSE LET q == x \div FloatUlp
           r == x - q * FloatUlp
       IN  IF 2 * r < FloatUlp THEN q * FloatUlp
           ELSE IF 2 * r > FloatUlp THEN (q + 1) * FloatUlp
           ELSE IF q % 2 = 0 THEN q * FloatUlp ELSE (q + 1) * FloatUlp

\* The largest r with r * r <= n: the integer part of np.sqrt(n).
RECURSIVE SqrtFrom(_, _)
SqrtFrom(n, r) == IF (r + 1) * (r + 1) > n THEN r ELSE SqrtFrom(n, r + 1)
Sqrt(n) == SqrtFrom(n, 0)

PolAmpMutant(m) == [p \in Pix |-> Sqrt(m[1][p] * m[1][p] + m[2][p] * m[2][p])]
\* notebook 1 line 226: np.sqrt(m[1]**2 + m[2]**2)
PolAmp(m) == [p \in Pix |-> Sqrt(m[2][p] * m[2][p] + m[3][p] * m[3][p])]

SetWhereMutant(a, sel, val) == [p \in Pix |-> IF sel[p] THEN a[p] ELSE val]
\* a[sel] = val on a one-component map with a boolean index array
SetWhere(a, sel, val) == [p \in Pix |-> IF sel[p] THEN val ELSE a[p]]

NonPositiveMutant(h) == [p \in Pix |-> h[p] < 0]
\* ivar1 <= 0
NonPositive(h) == [p \in Pix |-> h[p] <= 0]
\* ivar1*0 + 1
OnesLike(h) == [p \in Pix |-> h[p] * 0 + 1]
\* hitmap == 0
IsZero(h) == [p \in Pix |-> h[p] = 0]
\* np.logical_not(mask)
LogicalNot(b) == [p \in Pix |-> ~b[p]]

\* hp.ma(m) on three components: np.ma.masked_values(m, hp.UNSEEN), the pixels
\* that hold the UNSEEN value masked.
Ma(m) == [data |-> m, mask |-> [c \in Comp |-> [p \in Pix |-> m[c][p] = UNSEEN]]]

MaSetColumnsMutant(each, sel, val) ==
  [data |-> [c \in Comp |-> SetWhere(each.data[c], sel, val)],
   mask |-> [c \in Comp |-> [p \in Pix |-> IF sel[p] THEN ~each.mask[c][p]
                                           ELSE each.mask[c][p]]]]
\* each[:, sel] = val on a masked array: numpy.ma's __setitem__ with a value
\* that is not np.ma.masked stores the value and clears the mask there.
MaSetColumns(each, sel, val) ==
  [data |-> [c \in Comp |-> SetWhere(each.data[c], sel, val)],
   mask |-> [c \in Comp |-> [p \in Pix |-> IF sel[p] THEN FALSE
                                           ELSE each.mask[c][p]]]]

MaIAddMutant(each, other) ==
  [data |-> [c \in Comp |-> [p \in Pix |->
               Fl(each.data[c][p]
                  + (IF each.mask[c][p] THEN 0 ELSE 2 * other[c][p]))]],
   mask |-> each.mask]
\* each += other on a masked array, other a plain array: numpy.ma's __iadd__
\* adds np.where(mask, 0, other) to the data; the mask is kept.
MaIAdd(each, other) ==
  [data |-> [c \in Comp |-> [p \in Pix |->
               Fl(each.data[c][p]
                  + (IF each.mask[c][p] THEN 0 ELSE other[c][p]))]],
   mask |-> each.mask]

\* np.ma.nomask on three components
NoMask == [c \in Comp |-> [p \in Pix |-> FALSE]]
\* A plain array as operand of a masked operation: its data, no mask.
AsMa(m) == [data |-> m, mask |-> NoMask]

MaAddMutant(a, b) ==
  LET m == [c \in Comp |-> [p \in Pix |-> a.mask[c][p] \/ b.mask[c][p]]] IN
  [data |-> [c \in Comp |-> [p \in Pix |->
               IF m[c][p] THEN b.data[c][p]
               ELSE Fl(a.data[c][p] + b.data[c][p])]],
   mask |-> m]
\* a + b with a masked array among the operands: numpy.ma's add returns a new
\* masked array, masked where either operand is, holding the sum elsewhere
\* and the first operand's data under the mask.
MaAdd(a, b) ==
  LET m == [c \in Comp |-> [p \in Pix |-> a.mask[c][p] \/ b.mask[c][p]]] IN
  [data |-> [c \in Comp |-> [p \in Pix |->
               IF m[c][p] THEN a.data[c][p]
               ELSE Fl(a.data[c][p] + b.data[c][p])]],
   mask |-> m]

\* m * hitmap: the hitmap broadcast over the three components
TimesHitmap(m, h) == [c \in Comp |-> [p \in Pix |-> m[c][p] * h[p]]]

(* Rationals <<numerator, denominator>> in lowest terms, denominator > 0;  *)
(* NonFinite stands for the inf or nan numpy gives on a division by zero.  *)
RECURSIVE Gcd(_, _)
Gcd(a, b) == IF b = 0 THEN a ELSE Gcd(b, a % b)
Rat(n, d) == LET g == Gcd(Abs(n), d) IN <<n \div g, d \div g>>
NonFinite == <<1, 0>>
RatMul(a, b) ==
  IF a[2] = 0 \/ b[2] = 0 THEN NonFinite ELSE Rat(a[1] * b[1], a[2] * b[2])
RatInv(a) ==
  IF a[2] = 0 \/ a[1] = 0 THEN NonFinite
  ELSE IF a[1] < 0 THEN Rat(-a[2], -a[1]) ELSE Rat(a[2], a[1])
RatDiv(a, b) == IF a[2] = 0 THEN NonFinite ELSE RatMul(a, RatInv(b))

RECURSIVE SumOver(_, _)
\* sum of f over the pixels 1..n
SumOver(f, n) == IF n = 0 THEN 0 ELSE f[n] + SumOver(f, n - 1)

SkyFractionMutant(h) ==
  Rat(SumOver([p \in Pix |-> IF h[p] >= 0 THEN 1 ELSE 0], NPix), Len(h))
\* notebook 3 line 204: (hitmaps[0] > 0).sum() / len(hitmaps[0])
SkyFraction(h) ==
  Rat(SumOver([p \in Pix |-> IF h[p] > 0 THEN 1 ELSE 0], NPix), Len(h))

MeanSquareMutant(h) ==
  LET seen == SumOver([p \in Pix |-> IF h[p] > 0 THEN 1 ELSE 0], NPix) IN
  IF seen = 0 THEN NonFinite
  ELSE Rat(SumOver([p \in Pix |-> h[p] * h[p]], NPix), seen)
\* notebook 3 line 223: np.mean(hitmaps[0]**2)
MeanSquare(h) == Rat(SumOver([p \in Pix |-> h[p] * h[p]], NPix), NPix)

\* The area of the full sphere (4 pi), in the unit of the pixel areas.
SphereArea == 2 * NPix
\* notebook 6 line 323: np.sum((mask**2)*pmap) / np.pi / 4.
W2(mask, pmap) ==
  Rat(SumOver([p \in Pix |-> mask[p] * mask[p] * pmap[p]], NPix), SphereArea)

\* hp.anafast(x, iter=0): the transform is the library's; a spectrum is kept as
\* the map it is the transform of and the factor it has been scaled by.
Anafast(x) == [of |-> x, scale |-> <<1, 1>>]
\* hp.alm2cl(cs.map2alm(x, lmax=500)), kept the same way
Alm2cl(x) == [of |-> x, scale |-> <<1, 1>>]
\* spectrum / r
SpectrumDiv(cl, r) == [cl EXCEPT !.scale = RatDiv(@, r)]

\* notebook 3 line 223: one entry of cls
NoiseSpectrum(m, hitmaps, sky_fraction) ==
  SpectrumDiv(SpectrumDiv(Anafast(TimesHitmap(m, hitmaps[1])),
                          MeanSquare(hitmaps[1])),
              sky_fraction)

NoMa == [data |-> <<>>, mask |-> <<>>]
\* The namespace before any map cell has run: every name unbound.
EmptyEnv ==
  [m |-> <<>>, m_P |-> <<>>, mask |-> <<>>, m_P_masked |-> <<>>,
   hitmaps |-> <<>>, m_P_survey |-> <<>>, maps |-> <<>>, dust |-> <<>>,
   sky_fraction |-> <<>>, cls |-> <<>>, foregrounds_cmb |-> NoMa,
   arrays |-> <<>>, ivar |-> <<>>, ivar1 |-> <<>>, pmap |-> <<>>,
   w2 |-> <<>>]

MapIdle ==
  /\ nb = 0
  /\ stage = 0
  /\ execs = 0
  /\ env = EmptyEnv
  /\ old = EmptyEnv
  /\ base = EmptyEnv

\* The names bound to what hp.read_map returns.
Targets == {"m", "mask", "maps", "dust", "foregrounds_cmb", "omap"}
NoErr == [kind |-> "none", line |-> 0, file |-> <<"", 0>>]

CellStart ==
  /\ pc = 1
  /\ names = {}
  /\ err = NoErr
  /\ iolog = <<>>
  /\ iop = 0
  /\ acc = <<>>
  /\ loaded = [t \in Targets |-> <<>>]
  /\ oplog = <<>>

CellIdle ==
  /\ CellStart
  /\ fs = <<>>

----------------------------------------------------------------------------
(* Inputs of the path cells.                                               *)

Telescopes == {<<"S", "A">>, <<"L", "A">>}
Channels ==
  { [telescope |-> <<"S", "A">>, tube |-> "ST2", band |-> "UHF1"],
    [telescope |-> <<"L", "A">>, tube |-> "LT3", band |-> "MFF1"] }
Nsides == {512, 4096}
Contents == {"combined", "cmb", "dust", "noise"}
SplitCounts == {1, 4}

NoCall == [template |-> "none"]

\* Path("/project/projectdirs/sobs/v4_sims/mbs/") / "202006_noise"
NoiseRelease == PathJoin("/project/projectdirs/sobs/v4_sims/mbs", "202006_noise")

PathStart ==
  /\ call = NoCall
  /\ filenames = <<>>
  /\ runs = [full |-> 0, splits |-> 0]

PathInit ==
  /\ channel \in Channels
  /\ nside \in Nsides
  /\ PathStart
  /\ MapIdle
  /\ CellIdle

\* notebook 1 lines 198-199, notebook 2 lines 78-79 and 202-203, notebook 3
\* lines 277-278: filename_template.format(nside=, content=, num=,
\* telescope=channel.telescope.lower(), band=channel.band)
FormatForeground ==
  /\ call = NoCall /\ filenames = <<>>
  /\ \E ns \in Nsides, content \in {"combined", "cmb"}, num \in 0..MaxNum :
       LET kw == [nside |-> ns, content |-> content, num |-> num,
                  telescope |-> StrOf(Lower(channel.telescope)),
                  band |-> channel.band] IN
       /\ call' = [template |-> "foreground", kw |-> kw,
                   path |-> Format(filename_template, kw)]
       /\ UNCHANGED <<channel, nside, filenames, runs>>
       /\ UNCHANGED <<mapVars, cellVars>>

\* The keyword arguments of the noise template's format call (notebook 3 lines
\* 104-106 and 116-118): telescope is passed although no field names it.
NoiseKw(content, num, telescope, split, nsplits) ==
  [nside |-> nside, content |-> content, num |-> num,
   telescope |-> StrOf(telescope), tube |-> channel.tube,
   band |-> channel.band, split |-> split, nsplits |-> nsplits]

\* notebook 3 lines 104-106, 116-118 with any content, num, split, nsplits
FormatNoise ==
  /\ call = NoCall /\ filenames = <<>>
  /\ \E content \in {"noise", "cmb"}, num \in {0, 7, 10, 99, 100, 999, 1000, MaxNum},
        split \in 1..4, nsplits \in SplitCounts :
       LET kw == NoiseKw(content, num, channel.telescope, split, nsplits) IN
       /\ call' = [template |-> "noise", kw |-> kw,
                   path |-> Format(noise_filename_template, kw)]
       /\ UNCHANGED <<channel, nside, filenames, runs>>
       /\ UNCHANGED <<mapVars, cellVars>>

\* One entry of the noise file list.
NoiseFile(split, nsplits) ==
  PathJoin(NoiseRelease,
           Format(noise_filename_template,
                  NoiseKw("noise", 0, channel.telescope, split, nsplits)))

\* notebook 3 lines 104-106: filenames = [ ... split=1, nsplits=1 ]
CellFullMission ==
  /\ call = NoCall
  /\ runs.full < MaxRuns
  /\ filenames' = <<NoiseFile(1, 1)>>
  /\ runs' = [runs EXCEPT !.full = @ + 1]
  /\ UNCHANGED <<channel, nside, call>>
  /\ UNCHANGED <<mapVars, cellVars>>

SplitRangeMutant == <<1, 2, 3>>
\* range(1, 5)
SplitRange == <<1, 2, 3, 4>>

\* notebook 3 lines 115-118: for split in range(1, 5): filenames += [ ... ]
\* (a NameError, and no change, while filenames is unbound)
CellSplits ==
  /\ call = NoCall
  /\ runs.splits < MaxRuns
  /\ runs.full > 0
  /\ filenames' = filenames \o
       [i \in DOMAIN SplitRange |-> NoiseFile(SplitRange[i], 4)]
  /\ runs' = [runs EXCEPT !.splits = @ + 1]
  /\ UNCHANGED <<channel, nside, call>>
  /\ UNCHANGED <<mapVars, cellVars>>

PathNext == FormatForeground \/ FormatNoise \/ CellFullMission \/ CellSplits

SpecPath == PathInit /\ [][PathNext]_vars

----------------------------------------------------------------------------
(* The map cells.                                                          *)

PathIdle ==
  /\ channel = [telescope |-> <<"S", "A">>, tube |-> "ST2", band |-> "UHF1"]
  /\ nside = 512
  /\ PathStart

\* The map whose pixel p holds the (I, Q, U) triple t[p].
MapOf(t) == [c \in Comp |-> [p \in Pix |-> t[p][c]]]
MapsFrom(Triples) == {MapOf(t) : t \in [Pix -> Triples]}
\* The lists of NMaps maps read from the files of one release: the first map
\* any map, the others the same value in every pixel.
MapLists(Triples) ==
  {[i \in 1..NMaps |-> IF i = 1 THEN x ELSE MapOf([p \in Pix |-> t])] :
     x \in MapsFrom(Triples), t \in Triples}

\* (I, Q, U) values of the pixels of the files the cells read.
SkyTriples == {<<0, 0, 0>>, <<5, 0, 0>>, <<1, 3, -4>>, <<0, -3, 0>>}
CmbTriples == {<<10, 2, -3>>, <<UNSEEN, UNSEEN, UNSEEN>>}
DustTriples == {<<4, 1, -1>>, <<UNSEEN, UNSEEN, UNSEEN>>}
NoiseTriples == {<<1, 2, -3>>, <<-2, 0, 5>>}
FgTriples == {<<3, 1, -2>>, <<UNSEEN, UNSEEN, UNSEEN>>}
\* Inverse variance of a pixel: positive where observed.
IvarValues == {-1, 0, 3}
\* ivar = noise_sim.get_inverse_variance(tube): one map per array of the tube.
IvarPairs ==
  {<<h, g>> : h \in [Pix -> IvarValues], g \in [Pix -> {1}]}
    \cup {<<h, h>> : h \in [Pix -> IvarValues]}
\* noise_sim.pixarea_map: the areas of the pixels of a geometry that covers
\* each sky position at most once.
PixAreaMaps == {a \in [Pix -> {1, 2}] : SumOver(a, NPix) <= SphereArea}
\* Hit counts of a pixel.
HitCounts == {0, 2}
\* hitmaps, ave_nhits = noise.get_hitmaps(tube=...): one hitmap per channel
\* of the tube, the same for both or not.
HitmapPairs ==
  {<<h, g>> : h \in [Pix -> HitCounts], g \in [Pix -> {1}]}
    \cup {<<h, h>> : h \in [Pix -> HitCounts]}

\* The cells of each notebook that bind or change maps, top to bottom.
MapCells(n) ==
  CASE n = 1 -> <<"read_m", "pol_amp", "read_mask", "apply_mask",
                  "get_hitmaps", "hit_cut">>
    [] n = 2 -> <<"read_maps", "get_hitmaps", "hit_cut_maps", "read_dust",
                  "coadd_dust">>
    [] n = 3 -> <<"read_noise", "get_hitmaps", "sky_fraction", "spectra",
                  "read_fg", "coadd_fg">>
    [] n = 6 -> <<"get_ivar", "ivar1", "pixarea", "spectrum">>
    [] OTHER -> <<>>

\* The cells that read no input: executing one again is modelled.
Rerunnable ==
  {"pol_amp", "apply_mask", "hit_cut", "hit_cut_maps", "coadd_dust",
   "sky_fraction", "spectra", "coadd_fg", "ivar1", "spectrum"}

\* The position of a cell, 0 if the notebook has no such cell.
CellIndex(name) ==
  IF \E k \in DOMAIN MapCells(nb) : MapCells(nb)[k] = name
  THEN CHOOSE k \in DOMAIN MapCells(nb) : MapCells(nb)[k] = name
  ELSE 0

\* The cell is the next one from the top, or the one just executed.
CanRun(name) ==
  LET k == CellIndex(name) IN
  /\ k > 0
  /\ \/ stage = k - 1
     \/ stage = k /\ name \in Rerunnable /\ execs < MaxExec

\* Executing the cell binds the names as in e.
Run(name, e) ==
  /\ CanRun(name)
  /\ env' = e
  /\ old' = env
  /\ base' = IF stage = CellIndex(name) THEN base ELSE env
  /\ execs' = IF stage = CellIndex(name) THEN execs + 1 ELSE 1
  /\ stage' = CellIndex(name)
  /\ UNCHANGED <<nb, pathVars, cellVars>>

MapsInit ==
  /\ nb \in {1, 2, 3, 6}
  /\ stage = 0
  /\ execs = 0
  /\ env = EmptyEnv
  /\ old = EmptyEnv
  /\ base = EmptyEnv
  /\ PathIdle
  /\ CellIdle

\* notebook 1 line 217: m = hp.read_map(filename, (0,1,2))
ReadM ==
  /\ CanRun("read_m")
  /\ \E x \in MapsFrom(SkyTriples) : Run("read_m", [env EXCEPT !.m = x])

\* notebook 1 line 226: m_P = np.sqrt(m[1]**2 + m[2]**2)
CellPolAmp == Run("pol_amp", [env EXCEPT !.m_P = PolAmp(env.m)])

\* notebook 1 lines 272-273: mask = hp.read_map(..., dtype=np.bool)
ReadMask ==
  /\ CanRun("read_mask")
  /\ \E b \in [Pix -> BOOLEAN] : Run("read_mask", [env EXCEPT !.mask = b])

\* notebook 1 lines 302-303: m_P_masked = m_P.copy();
\* m_P_masked[np.logical_not(mask)] = hp.UNSEEN
ApplyMask ==
  Run("apply_mask",
      [env EXCEPT !.m_P_masked =
         SetWhere(env.m_P, LogicalNot(env.mask), UNSEEN)])

\* notebook 1 line 339, notebook 2 line 115, notebook 3 line 195:
\* hitmaps, ave_nhits = noise.get_hitmaps(tube=channel.tube)
GetHitmaps ==
  /\ CanRun("get_hitmaps")
  /\ \E h \in HitmapPairs : Run("get_hitmaps", [env EXCEPT !.hitmaps = h])

\* notebook 1 lines 364-365: m_P_survey = m_P.copy();
\* m_P_survey[hitmaps[0] == 0] = hp.UNSEEN
HitCut ==
  Run("hit_cut",
      [env EXCEPT !.m_P_survey =
         SetWhere(env.m_P, IsZero(env.hitmaps[1]), UNSEEN)])

\* notebook 2 line 88:
\* maps = [hp.ma(hp.read_map(filename, (0,1,2))) for filename in filenames]
ReadMaps ==
  /\ CanRun("read_maps")
  /\ \E xs \in MapLists(CmbTriples) :
       Run("read_maps", [env EXCEPT !.maps = [i \in 1..NMaps |-> Ma(xs[i])]])

\* notebook 2 lines 131-132:
\* for each in maps: each[:, hitmaps[0] == 0] = hp.UNSEEN
HitCutMaps ==
  Run("hit_cut_maps",
      [env EXCEPT !.maps =
         [i \in DOMAIN env.maps |->
            MaSetColumns(env.maps[i], IsZero(env.hitmaps[1]), UNSEEN)]])

\* notebook 2 line 212: dust = hp.read_map(filename, (0,1,2))
ReadDust ==
  /\ CanRun("read_dust")
  /\ \E x \in MapsFrom(DustTriples) : Run("read_dust", [env EXCEPT !.dust = x])

\* notebook 2 lines 229-230: for each in maps: each += dust
CoaddDust ==
  Run("coadd_dust",
      [env EXCEPT !.maps =
         [i \in DOMAIN env.maps |-> MaIAdd(env.maps[i], env.dust)]])

\* notebook 3 line 127:
\* maps = [hp.read_map(filename, (0,1,2)) for filename in filenames]
ReadNoise ==
  /\ CanRun("read_noise")
  /\ \E xs \in MapLists(NoiseTriples) :
       Run("read_noise", [env EXCEPT !.maps = xs, !.arrays = xs])

\* notebook 3 line 204: sky_fraction = (hitmaps[0] > 0).sum() / len(hitmaps[0])
CellSkyFraction ==
  Run("sky_fraction",
      [env EXCEPT !.sky_fraction = SkyFraction(env.hitmaps[1])])

\* notebook 3 line 223: cls = [hp.anafast(m * hitmaps[0], iter=0)
\*   / np.mean(hitmaps[0]**2) / sky_fraction for m in maps]
CellSpectra ==
  Run("spectra",
      [env EXCEPT !.cls =
         [i \in DOMAIN env.maps |->
            NoiseSpectrum(env.maps[i], env.hitmaps, env.sky_fraction)]])

\* notebook 3 line 287: foregrounds_cmb = hp.ma(hp.read_map(filename, (0,1,2)))
ReadFg ==
  /\ CanRun("read_fg")
  /\ \E x \in MapsFrom(FgTriples) :
       Run("read_fg", [env EXCEPT !.foregrounds_cmb = Ma(x)])

\* notebook 3 line 296: maps = [each + foregrounds_cmb for each in maps]
\* The entries of maps are the plain arrays of line 127 the first time, the
\* masked arrays of the execution before after that.
CoaddFg ==
  Run("coadd_fg",
      [env EXCEPT !.maps =
         [i \in DOMAIN env.maps |->
            MaAdd(IF stage = CellIndex("coadd_fg") THEN env.maps[i]
                  ELSE AsMa(env.maps[i]),
                  env.foregrounds_cmb)]])

\* notebook 6 line 237: ivar = noise_sim.get_inverse_variance(tube)
GetIvar ==
  /\ CanRun("get_ivar")
  /\ \E v \in IvarPairs : Run("get_ivar", [env EXCEPT !.ivar = v])

\* notebook 6 line 256: ivar1 = ivar[0]
CellIvar1 == Run("ivar1", [env EXCEPT !.ivar1 = env.ivar[1]])

\* notebook 6 line 286: pmap = noise_sim.pixarea_map
PixArea ==
  /\ CanRun("pixarea")
  /\ \E a \in PixAreaMaps : Run("pixarea", [env EXCEPT !.pmap = a])

\* notebook 6 lines 319-325: alm = cs.map2alm(np.sqrt(ivar1/pmap)*tmap1, ...);
\* mask = ivar1*0 + 1; mask[ivar1<=0] = 0;
\* w2 = np.sum((mask**2)*pmap) / np.pi / 4.; cls = hp.alm2cl(alm) / w2
CellSpectrum ==
  LET mask == SetWhere(OnesLike(env.ivar1), NonPositive(env.ivar1), 0)
      w2 == W2(mask, env.pmap)
  IN  Run("spectrum",
          [env EXCEPT !.mask = mask, !.w2 = w2,
                      !.cls = SpectrumDiv(Alm2cl(<<env.ivar1, env.pmap>>), w2)])

MapsNext ==
  \/ ReadM \/ CellPolAmp \/ ReadMask \/ ApplyMask \/ GetHitmaps \/ HitCut
  \/ ReadMaps \/ HitCutMaps \/ ReadDust \/ CoaddDust
  \/ ReadNoise \/ CellSkyFraction \/ CellSpectra \/ ReadFg \/ CoaddFg
  \/ GetIvar \/ CellIvar1 \/ PixArea \/ CellSpectrum

SpecMaps == MapsInit /\ [][MapsNext]_vars

----------------------------------------------------------------------------
(* The cells of the notebooks.  A code cell is recorded with the line of   *)
(* the source file where its code starts, the names it reads from the      *)
(* kernel's namespace, the names it binds, the file operations it performs *)
(* on the release directories in order, the name bound to what its         *)
(* hp.read_map calls return, and what it does to maps.                     *)

K(line, reads, binds, io, target, ops) ==
  [line |-> line, reads |-> reads, binds |-> binds, io |-> io,
   target |-> target, ops |-> ops]
\* A cell that touches neither the release directories nor a map.
Plain(line, reads, binds) == K(line, reads, binds, <<>>, "", <<>>)
\* A cell that only works on maps.
OnMaps(line, reads, binds, ops) == K(line, reads, binds, <<>>, "", ops)

\* A file operation: the call and the file or directory it names.
Io(op, kind, i) == [call |-> op, file |-> <<kind, i>>]
\* A map operation: "read" (hp.read_map), "make" (returned by the mapsims
\* simulator), "derive" (computed from the maps in from), "mask", "combine",
\* "plot", "spectrum".
Op(kind, var, from) == [kind |-> kind, var |-> var, from |-> from]

\* hp.read_map of every entry of a file list, in order.
ReadEach(kind) == [i \in 1..NMaps |-> Io("read_map", kind, i)]

Cells1 == <<
  Plain(9, {}, {"mapsims", "np", "hp", "u", "Path"}),
  Plain(47, {"mapsims"}, {"channels"}),
  Plain(56, {"channels"}, {}),
  Plain(65, {"channels"}, {"channel"}),
  Plain(74, {"channel"}, {}),
  Plain(90, {"channel"}, {}),
  Plain(99, {"channel", "u"}, {}),
  Plain(108, {"mapsims"}, {"ch"}),
  Plain(118, {"mapsims"}, {}),
  Plain(127, {"mapsims"}, {"ch"}),
  Plain(146, {"u", "channel"}, {}),
  Plain(155, {"u", "channel"}, {}),
  Plain(171, {}, {"folder"}),
  K(180, {"folder"}, {}, <<Io("ls", "dir", 1)>>, "", <<>>),
  Plain(189, {}, {"filename_template"}),
  Plain(198, {"Path", "folder", "filename_template", "channel"}, {"filename"}),
  Plain(208, {"filename"}, {}),
  K(217, {"hp", "filename"}, {"m"}, <<Io("read_map", "combined", 1)>>, "m",
    <<Op("read", "m", {})>>),
  OnMaps(226, {"np", "m"}, {"m_P"}, <<Op("derive", "m_P", {"m"}),
                                      Op("combine", "m_P", {"m"})>>),
  OnMaps(235, {"hp", "m_P", "channel"}, {}, <<Op("plot", "m_P", {})>>),
  K(254, {}, {}, <<Io("ls", "dir", 2)>>, "", <<>>),
  Plain(263, {}, {"mask_filename"}),
  K(272, {"hp", "mask_filename", "np"}, {"mask"},
    <<Io("read_map", "mask", 1)>>, "mask", <<Op("read", "mask", {})>>),
  Plain(282, {"mask"}, {}),
  OnMaps(291, {"hp", "mask"}, {}, <<Op("plot", "mask", {})>>),
  OnMaps(302, {"m_P", "np", "mask", "hp"}, {"m_P_masked"},
         <<Op("derive", "m_P_masked", {"m_P"}),
           Op("mask", "m_P_masked", {"mask"})>>),
  OnMaps(312, {"hp", "m_P_masked"}, {}, <<Op("plot", "m_P_masked", {})>>),
  Plain(330, {"mapsims"}, {"noise"}),
  OnMaps(339, {"noise", "channel"}, {"hitmaps", "ave_nhits"},
         <<Op("make", "hitmaps", {})>>),
  Plain(355, {"hitmaps"}, {}),
  OnMaps(364, {"m_P", "hitmaps", "hp"}, {"m_P_survey"},
         <<Op("derive", "m_P_survey", {"m_P"}),
           Op("mask", "m_P_survey", {"hitmaps"})>>),
  OnMaps(374, {"hp", "m_P_survey"}, {}, <<Op("plot", "m_P_survey", {})>>),
  Plain(382, {}, {}) >>

Cells2 == <<
  Plain(9, {}, {"mapsims", "np", "hp", "u", "Path", "plt"}),
  Plain(35, {"mapsims"}, {"channel"}),
  Plain(51, {}, {"folder"}),
  K(60, {"folder"}, {}, <<Io("ls", "dir", 1)>>, "", <<>>),
  Plain(69, {}, {"filename_template"}),
  Plain(78, {"Path", "folder", "filename_template", "channel"},
        {"filenames"}),
  K(88, {"hp", "filenames"}, {"maps"}, ReadEach("cmb"), "maps",
    <<Op("read", "maps", {})>>),
  Plain(106, {"mapsims"}, {"noise"}),
  OnMaps(115, {"noise", "channel"}, {"hitmaps", "ave_nhits"},
         <<Op("make", "hitmaps", {})>>),
  OnMaps(131, {"maps", "hitmaps", "hp"}, {"each"},
         <<Op("mask", "maps", {"hitmaps"})>>),
  OnMaps(141, {"hp", "maps"}, {}, <<Op("plot", "maps", {})>>),
  OnMaps(150, {"hp", "maps"}, {"cls"}, <<Op("spectrum", "maps", {})>>),
  Plain(160, {"plt", "cls"}, {"cl"}),
  Plain(184, {}, {"folder"}),
  Plain(193, {}, {"filename_template"}),
  Plain(202, {"Path", "folder", "filename_template", "channel"},
        {"filename"}),
  K(212, {"hp", "filename"}, {"dust"}, <<Io("read_map", "dust", 1)>>, "dust",
    <<Op("read", "dust", {})>>),
  OnMaps(229, {"maps", "dust"}, {"each"}, <<Op("combine", "maps", {"dust"})>>),
  OnMaps(239, {"hp", "maps"}, {}, <<Op("plot", "maps", {})>>),
  Plain(247, {}, {}) >>

Cells3SetupMutant == <<
  Plain(9, {}, {"mapsims", "np", "hp", "u", "Path", "plt"}),
  Plain(35, {"mapsims"}, {"channels"}),
  Plain(44, {"channels"}, {"channel"}),
  Plain(53, {"channel"}, {}),
  Plain(85, {"Path"}, {"folder", "release"}),
  Plain(95, {}, {"filename_template"}),
  Plain(104, {"Path", "folder", "release", "filename_template", "nside",
              "channel"}, {"filenames"}),
  Plain(115, {"filenames", "Path", "folder", "release", "filename_template",
              "nside", "channel"}, {"split", "filenames"}) >>
\* notebook 3 up to the file list
Cells3Setup == <<
  Plain(9, {}, {"mapsims", "np", "hp", "u", "Path", "plt"}),
  Plain(35, {"mapsims"}, {"channels"}),
  Plain(44, {"channels"}, {"channel"}),
  Plain(53, {"channel"}, {}),
  Plain(69, {"mapsims", "channel"}, {"nside"}),
  Plain(85, {"Path"}, {"folder", "release"}),
  Plain(95, {}, {"filename_template"}),
  Plain(104, {"Path", "folder", "release", "filename_template", "nside",
              "channel"}, {"filenames"}),
  Plain(115, {"filenames", "Path", "folder", "release", "filename_template",
              "nside", "channel"}, {"split", "filenames"}) >>

\* notebook 3 from the map read to the spectra
Cells3Noise == <<
  K(127, {"hp", "filenames"}, {"maps"}, ReadEach("noise"), "maps",
    <<Op("read", "maps", {})>>),
  OnMaps(136, {"hp", "maps", "channel"}, {}, <<Op("plot", "maps", {})>>),
  Plain(156, {"mapsims", "nside"}, {"noise"}),
  Plain(165, {"noise", "channel"}, {"ell", "ps_T", "ps_P"}),
  Plain(174, {"plt", "ell", "ps_P"}, {}),
  OnMaps(195, {"noise", "channel"}, {"hitmaps", "ave_nhits"},
         <<Op("make", "hitmaps", {})>>),
  Plain(204, {"hitmaps"}, {"sky_fraction"}),
  Plain(213, {"sky_fraction"}, {}),
  OnMaps(222, {"hp", "maps", "hitmaps", "np", "sky_fraction"}, {"cls"},
         <<Op("mask", "maps", {"hitmaps"}), Op("spectrum", "maps", {})>>),
  Plain(232, {"plt", "ell", "ps_P", "sky_fraction", "cls"}, {"cl"}) >>

\* notebook 3: adding foregrounds and CMB
Cells3Coadd == <<
  Plain(259, {}, {"folder"}),
  Plain(268, {}, {"filename_template"}),
  Plain(277, {"Path", "folder", "filename_template", "channel"},
        {"filename"}),
  K(287, {"hp", "filename"}, {"foregrounds_cmb"},
    <<Io("read_map", "combined", 1)>>, "foregrounds_cmb",
    <<Op("read", "foregrounds_cmb", {})>>),
  OnMaps(296, {"maps", "foregrounds_cmb"}, {"maps"},
         <<Op("combine", "maps", {"foregrounds_cmb"})>>),
  OnMaps(305, {"hp", "maps", "channel"}, {}, <<Op("plot", "maps", {})>>),
  Plain(313, {}, {}) >>

Cells3 == Cells3Setup \o Cells3Noise \o Cells3Coadd

Cells6 == <<
  Plain(20, {}, {"mapsims", "enmap", "cs", "utils", "enplot", "np", "hp",
                 "plt"}),
  Plain(57, {"mapsims"}, {}),
  Plain(80, {"enmap", "utils", "mapsims"}, {"shape", "wcs", "noise_sim"}),
  Plain(97, {"noise_sim"}, {}),
  Plain(106, {"noise_sim"}, {}),
  OnMaps(123, {"noise_sim"}, {"tube", "omap"}, <<Op("make", "omap", {})>>),
  Plain(140, {"omap"}, {}),
  OnMaps(165, {"omap", "enplot"}, {"tmap1"},
         <<Op("derive", "tmap1", {"omap"}), Op("plot", "tmap1", {})>>),
  Plain(185, {"enmap", "np", "utils", "mapsims"},
        {"shape", "wcs", "noise_sim"}),
  OnMaps(195, {"noise_sim", "tube"}, {"omap"}, <<Op("make", "omap", {})>>),
  OnMaps(204, {"omap", "enplot"}, {"tmap1", "plot"},
         <<Op("derive", "tmap1", {"omap"}), Op("plot", "tmap1", {})>>),
  OnMaps(237, {"noise_sim", "tube"}, {"ivar"}, <<Op("make", "ivar", {})>>),
  OnMaps(256, {"ivar", "plot", "enplot"}, {"ivar1"},
         <<Op("derive", "ivar1", {"ivar"}), Op("plot", "ivar1", {})>>),
  OnMaps(286, {"noise_sim", "plot", "enplot"}, {"pmap"},
         <<Op("make", "pmap", {}), Op("plot", "pmap", {})>>),
  OnMaps(303, {"plot", "enplot", "np", "ivar1", "pmap", "tmap1"}, {},
         <<Op("combine", "tmap1", {"ivar1", "pmap"}),
           Op("plot", "tmap1", {})>>),
  OnMaps(319, {"cs", "np", "ivar1", "pmap", "tmap1", "plot", "enplot", "hp",
               "plt"}, {"alm", "mask", "w2", "cls", "ls"},
         <<Op("combine", "tmap1", {"ivar1", "pmap"}),
           Op("spectrum", "tmap1", {}),
           Op("derive", "mask", {"ivar1"}), Op("plot", "mask", {})>>),
  Plain(351, {"noise_sim", "tube"},
        {"ells", "ps_T", "ps_P", "fsky", "wnoise", "hitmaps"}),
  Plain(369, {"plt", "ls", "cls", "ells", "ps_T", "wnoise"}, {}),
  OnMaps(401, {"noise_sim", "tube", "plot", "enplot"}, {"omap"},
         <<Op("make", "omap", {}), Op("plot", "omap", {})>>),
  OnMaps(418, {"mapsims", "shape", "wcs", "tube", "plot", "enplot"},
         {"noise_sim", "omap"},
         <<Op("make", "omap", {}), Op("plot", "omap", {})>>),
  Plain(443, {"enmap", "np", "utils", "mapsims"}, {"shape", "wcs", "ssim"}),
  K(453, {"noise_sim", "enmap", "ssim", "wcs"}, {"ch", "omap"},
    <<Io("read_alm", "alm", 1)>>, "omap", <<Op("make", "omap", {})>>),
  OnMaps(463, {"omap", "np", "utils", "plot", "enplot"}, {"i", "box"},
         <<Op("plot", "omap", {})>>) >>

Cells(n) ==
  CASE n = 1 -> Cells1 [] n = 2 -> Cells2 [] n = 3 -> Cells3
    [] n = 6 -> Cells6 [] OTHER -> <<>>

\* The files of the release directories a notebook reads.
FilesOf(n) ==
  CASE n = 1 -> {<<"combined", 1>>, <<"mask", 1>>}
    [] n = 2 -> {<<"cmb", i>> : i \in 1..NMaps} \cup {<<"dust", 1>>}
    [] n = 3 -> {<<"noise", i>> : i \in 1..NMaps} \cup {<<"combined", 1>>}
    [] n = 6 -> {<<"alm", 1>>}

\* A file is there with the three components, is not there, or is there
\* without them (a shape mismatch).
FileStates == {"ok", "missing", "bad"}

FileEffectMutant(op) ==
  CASE op = "ls" -> "list" [] op = "read_map" -> "write" [] op = "read_alm" -> "read"
\* What a call does to the file it names: !ls lists, hp.read_map and the
\* simulator's read of precomputed alms read.
FileEffect(op) ==
  CASE op = "ls" -> "list" [] op = "read_map" -> "read" [] op = "read_alm" -> "read"

\* The release directories after an operation on a file.
FsApply(effect, f, file) ==
  IF effect = "write" /\ file \in DOMAIN f
  THEN [f EXCEPT ![file] = "written"]
  ELSE f

\* What the library raises when it cannot read a file.
LibraryError(state) ==
  CASE state = "missing" -> "FileNotFoundError" [] state = "bad" -> "IndexError"

OnReadFailureMutant(ld, target, partial) == [ld EXCEPT ![target] = partial]
\* An exception inside the cell: the list the comprehension was building is
\* dropped, the assignment is not executed.
OnReadFailure(ld, target, partial) == ld

CellsInit ==
  /\ nb \in {1, 2, 3, 6}
  /\ CellStart
  /\ fs \in [FilesOf(nb) -> FileStates]
  /\ stage = 0
  /\ execs = 0
  /\ env = EmptyEnv
  /\ old = EmptyEnv
  /\ base = EmptyEnv
  /\ PathIdle

\* The next file operation of the cell being executed.
CellIo ==
  /\ err = NoErr
  /\ pc \in DOMAIN Cells(nb)
  /\ LET cell == Cells(nb)[pc] IN
     /\ cell.reads \subseteq names
     /\ iop < Len(cell.io)
     /\ LET e == cell.io[iop + 1]
            effect == FileEffect(e.call)
        IN  /\ iolog' = Append(iolog, e)
            /\ IF effect = "read" /\ fs[e.file] # "ok"
               THEN /\ err' = [kind |-> LibraryError(fs[e.file]),
                               line |-> cell.line, file |-> e.file]
                    /\ acc' = <<>>
                    /\ iop' = 0
                    /\ loaded' = OnReadFailure(loaded, cell.target, acc)
                    /\ UNCHANGED <<fs, names, pc, oplog>>
               ELSE /\ fs' = FsApply(effect, fs, e.file)
                    /\ acc' = IF effect = "list" THEN acc
                              ELSE Append(acc, e.file)
                    /\ iop' = iop + 1
                    /\ UNCHANGED <<err, names, pc, oplog, loaded>>
  /\ UNCHANGED <<pathVars, mapVars>>

\* The rest of the cell being executed: a NameError if a name it reads is
\* unbound, else its bindings and map operations; the next cell is selected.
CellFinish ==
  /\ err = NoErr
  /\ pc \in DOMAIN Cells(nb)
  /\ LET cell == Cells(nb)[pc] IN
     IF ~(cell.reads \subseteq names)
     THEN /\ err' = [kind |-> "NameError", line |-> cell.line,
                     file |-> <<"", 0>>]
          /\ UNCHANGED <<pc, names, fs, iolog, iop, acc, loaded, oplog>>
     ELSE /\ iop = Len(cell.io)
          /\ names' = names \cup cell.binds
          /\ loaded' = IF cell.target = "" THEN loaded
                       ELSE [loaded EXCEPT ![cell.target] = acc]
          /\ oplog' = oplog \o cell.ops
          /\ pc' = pc + 1
          /\ acc' = <<>>
          /\ iop' = 0
          /\ UNCHANGED <<fs, err, iolog>>
  /\ UNCHANGED <<pathVars, mapVars>>

CellsNext == CellIo \/ CellFinish

SpecCells == CellsInit /\ [][CellsNext]_vars

----------------------------------------------------------------------------
(* Properties of the map cells.                                            *)

\* The cell executed last is this one.
At(n, name) == nb = n /\ stage > 0 /\ MapCells(n)[stage] = name

\* C4: after the hitmap cut every pixel with hitmaps[0] == 0 holds UNSEEN and
\* every other pixel holds the value it had before the cut: m_P_survey against
\* m_P in notebook 1, the I, Q, U components of every map in notebook 2.
C4_HitmapCut ==
  /\ At(1, "hit_cut") =>
       /\ env.m_P = old.m_P
       /\ \A p \in Pix :
            env.m_P_survey[p] =
              IF env.hitmaps[1][p] = 0 THEN UNSEEN ELSE env.m_P[p]
  /\ At(2, "hit_cut_maps") =>
       /\ Len(env.maps) = NMaps
       /\ \A i \in 1..NMaps, c \in Comp, p \in Pix :
            env.maps[i].data[c][p] =
              IF env.hitmaps[1][p] = 0 THEN UNSEEN
              ELSE old.maps[i].data[c][p]

C4_Witness ==
  /\ At(2, "hit_cut_maps")
  /\ execs = 1
  /\ \E p, q \in Pix :
       /\ env.hitmaps[1][p] = 0
       /\ old.maps[1].data[2][p] = 2
       /\ env.maps[1].data[2][p] = UNSEEN
       /\ env.hitmaps[1][q] = 2
       /\ env.maps[NMaps].data[3][q] = -3

\* C5: after hp.ma, the hitmap cut and "each += dust", every pixel the cut set
\* to UNSEEN is still UNSEEN in every map and has not had the dust added.
C5_CoaddKeepsUnseen ==
  At(2, "coadd_dust") =>
    \A i \in 1..NMaps, c \in Comp, p \in Pix :
      env.hitmaps[1][p] = 0 =>
        /\ env.maps[i].data[c][p] = UNSEEN \/ env.maps[i].mask[c][p]
        /\ env.maps[i].data[c][p] = old.maps[i].data[c][p]

\* C8: sky_fraction is the number of pixels of hitmaps[0] with a positive count
\* over the number of pixels; every noise map is multiplied pixel by pixel by
\* hitmaps[0] before the transform, and the spectrum is divided by the mean of
\* the squared hitmap over all the pixels and once by sky_fraction.
C8_SkyFractionCorrection ==
  At(3, "spectra") =>
    LET h == env.hitmaps[1]
        seen == Cardinality({p \in Pix : h[p] > 0})
        sumsq == SumOver([p \in Pix |-> h[p] * h[p]], NPix)
    IN  /\ env.sky_fraction[2] > 0
        /\ env.sky_fraction[1] * NPix = seen * env.sky_fraction[2]
        /\ Len(env.cls) = Len(env.maps)
        /\ \A i \in 1..NMaps :
             /\ \A c \in Comp, p \in Pix :
                  env.cls[i].of[c][p] = env.maps[i][c][p] * h[p]
             /\ seen > 0 =>
                  /\ env.cls[i].scale[2] > 0
                  /\ env.cls[i].scale[1] * sumsq * seen
                       = env.cls[i].scale[2] * NPix * NPix

C8_Witness ==
  /\ At(3, "spectra")
  /\ env.hitmaps[1][1] = 0
  /\ env.hitmaps[1][NPix] = 2
  /\ env.hitmaps[2][1] = 1
  /\ env.sky_fraction[1] < env.sky_fraction[2]
  /\ env.cls[1].of[3][NPix] = -6

\* C9: m_P is at every pixel the square root of Q^2 + U^2: never negative,
\* zero exactly where Q and U are both zero, a function of Q and U alone; and
\* computing it leaves m unchanged.
C9_PolarizationAmplitude ==
  (nb = 1 /\ stage >= 2) =>
    /\ At(1, "pol_amp") => env.m = old.m
    /\ \A p \in Pix :
         LET q == env.m[2][p]
             u == env.m[3][p]
             a == env.m_P[p]
         IN  /\ a >= 0
             /\ a = 0 <=> (q = 0 /\ u = 0)
             /\ a * a <= q * q + u * u
             /\ q * q + u * u < (a + 1) * (a + 1)

C9_Witness ==
  /\ At(1, "pol_amp")
  /\ env.m[1][1] = 5 /\ env.m_P[1] = 0
  /\ env.m[1][NPix] = 1 /\ env.m_P[NPix] = 5

\* C11 as stated: every entry of maps is the sum of the noise map and
\* foregrounds_cmb at every pixel and component.
C11_SumAtEveryPixel ==
  (At(3, "coadd_fg") /\ execs = 1) =>
    \A i \in 1..NMaps, c \in Comp, p \in Pix :
      env.maps[i].data[c][p]
        = old.maps[i][c][p] + env.foregrounds_cmb.data[c][p]

\* C11, amended: after the co-add of notebook 3 the list maps has the length
\* and order of the list of noise maps; each entry holds, at every pixel and
\* component that is not masked in foregrounds_cmb, the sum of the noise map
\* and foregrounds_cmb, and is masked, keeping the noise value, where
\* foregrounds_cmb is masked; foregrounds_cmb, the arrays read from the noise
\* files and cls are not modified.
C11_CoaddForegrounds ==
  (At(3, "coadd_fg") /\ execs = 1) =>
    /\ Len(env.maps) = NMaps
    /\ Len(old.maps) = NMaps
    /\ \A i \in 1..NMaps, c \in Comp, p \in Pix :
         IF env.foregrounds_cmb.mask[c][p]
         THEN /\ env.maps[i].mask[c][p]
              /\ env.maps[i].data[c][p] = old.maps[i][c][p]
         ELSE /\ ~env.maps[i].mask[c][p]
              /\ env.maps[i].data[c][p]
                   = old.maps[i][c][p] + env.foregrounds_cmb.data[c][p]
    /\ env.foregrounds_cmb = old.foregrounds_cmb
    /\ env.arrays = old.maps
    /\ env.cls = old.cls

C11_Witness ==
  /\ At(3, "coadd_fg")
  /\ execs = 1
  /\ env.foregrounds_cmb.mask[1][1]
  /\ ~env.foregrounds_cmb.mask[1][NPix]
  /\ old.maps[1][3][NPix] = 5
  /\ env.maps[1].data[3][NPix] = 3
  /\ env.maps[NMaps].data[1][NPix] = 4
  /\ env.maps[1].mask[1][1]

\* The area of the pixels with a positive inverse variance.
ObservedArea ==
  SumOver([p \in Pix |-> IF env.ivar1[p] > 0 THEN env.pmap[p] ELSE 0], NPix)

\* C12: the mask of notebook 6 is 1 exactly where ivar1 > 0 and 0 where
\* ivar1 <= 0; w2 is the observed area over the area of the sphere, between 0
\* and 1; the spectrum is divided by w2 once; ivar1 is not modified.
C12_IncompleteSkyCorrection ==
  At(6, "spectrum") =>
    /\ \A p \in Pix :
         /\ env.mask[p] \in {0, 1}
         /\ env.mask[p] = 1 <=> env.ivar1[p] > 0
         /\ env.mask[p] = 0 <=> env.ivar1[p] <= 0
    /\ env.w2[2] > 0
    /\ env.w2[1] * SphereArea = ObservedArea * env.w2[2]
    /\ 0 <= env.w2[1] /\ env.w2[1] <= env.w2[2]
    /\ env.cls.of = <<env.ivar1, env.pmap>>
    /\ ObservedArea > 0 =>
         /\ env.cls.scale[2] > 0
         /\ env.cls.scale[1] * ObservedArea = env.cls.scale[2] * SphereArea
    /\ env.ivar1 = old.ivar1
    /\ env.ivar = old.ivar
    /\ env.pmap = old.pmap

C12_Witness ==
  /\ At(6, "spectrum")
  /\ env.ivar1[1] = 0 /\ env.mask[1] = 0
  /\ env.ivar1[NPix] = 3 /\ env.mask[NPix] = 1
  /\ env.pmap[NPix] = 1
  /\ env.w2[1] > 0 /\ env.w2[1] < env.w2[2]
  /\ env.cls.scale[1] > env.cls.scale[2]

\* C13: sky_fraction lies in [0, 1], is 1 exactly when every pixel of
\* hitmaps[0] has a positive count and 0 exactly when none has, and the
\* spectrum correction divides by zero in that last case only.
C13_SkyFractionBounds ==
  (nb = 3 /\ stage >= CellIndex("sky_fraction")) =>
    LET sf == env.sky_fraction
        h == env.hitmaps[1]
    IN  /\ \A p \in Pix : h[p] >= 0
        /\ sf[2] > 0
        /\ 0 <= sf[1] /\ sf[1] <= sf[2]
        /\ sf[1] = sf[2] <=> \A p \in Pix : h[p] > 0
        /\ sf[1] = 0 <=> \A p \in Pix : ~(h[p] > 0)
        /\ stage >= CellIndex("spectra") =>
             \A i \in 1..NMaps : env.cls[i].scale = NonFinite <=> sf[1] = 0

C13_Witness ==
  /\ At(3, "spectra")
  /\ \A p \in Pix : env.hitmaps[1][p] = 0
  /\ env.sky_fraction = <<0, 1>>
  /\ env.cls[NMaps].scale = NonFinite

\* The cells that apply a mask or a hitmap cut.
MaskCells == {<<1, "apply_mask">>, <<1, "hit_cut">>, <<2, "hit_cut_maps">>}

\* C14: executing a mask-application cell again, the mask and the hitmap
\* unchanged, leaves every map as it was after the execution before, hence
\* as after the first.
C14_MaskingIdempotent ==
  \A mc \in MaskCells :
    (At(mc[1], mc[2]) /\ execs >= 2) =>
      /\ env = old
      /\ base.mask = env.mask
      /\ base.hitmaps = env.hitmaps
      /\ mc[2] = "apply_mask" =>
            env.m_P_masked = SetWhere(base.m_P, LogicalNot(base.mask), UNSEEN)
      /\ mc[2] = "hit_cut" =>
            env.m_P_survey = SetWhere(base.m_P, IsZero(base.hitmaps[1]), UNSEEN)
      /\ mc[2] = "hit_cut_maps" =>
            \A i \in 1..NMaps :
              env.maps[i] =
                MaSetColumns(base.maps[i], IsZero(base.hitmaps[1]), UNSEEN)

C14_Witness ==
  /\ At(2, "hit_cut_maps")
  /\ execs = 2
  /\ env.hitmaps[1][1] = 0
  /\ env.hitmaps[1][NPix] = 2
  /\ base.maps[1].data[1][1] = 10
  /\ env.maps[1].data[1][1] = UNSEEN
  /\ old.maps[1].data[1][1] = UNSEEN

\* C15: after k executions in a row of the co-add cell every unmasked pixel
\* of every map holds its value before the first of them plus k times the
\* foreground value (as floating-point numbers), a masked pixel keeps its
\* value, and the foreground map is not modified.
C15_CoaddAccumulates ==
  /\ At(2, "coadd_dust") =>
       /\ env.dust = base.dust
       /\ Len(env.maps) = NMaps
       /\ \A i \in 1..NMaps, c \in Comp, p \in Pix :
            /\ env.maps[i].mask[c][p] = base.maps[i].mask[c][p]
            /\ env.maps[i].data[c][p] =
                 IF base.maps[i].mask[c][p] THEN base.maps[i].data[c][p]
                 ELSE Fl(base.maps[i].data[c][p] + execs * base.dust[c][p])
  /\ At(3, "coadd_fg") =>
       /\ env.foregrounds_cmb = base.foregrounds_cmb
       /\ Len(env.maps) = NMaps
       /\ \A i \in 1..NMaps, c \in Comp, p \in Pix :
            /\ env.maps[i].mask[c][p] = base.foregrounds_cmb.mask[c][p]
            /\ env.maps[i].data[c][p] =
                 IF base.foregrounds_cmb.mask[c][p] THEN base.maps[i][c][p]
                 ELSE Fl(base.maps[i][c][p]
                         + execs * base.foregrounds_cmb.data[c][p])

C15_Witness ==
  /\ At(2, "coadd_dust")
  /\ execs = MaxExec
  /\ base.maps[1].data[1][NPix] = 10
  /\ base.dust[1][NPix] = 4
  /\ env.maps[1].data[1][NPix] = 10 + MaxExec * 4
  /\ env.maps[NMaps].data[3][NPix] = -3 - MaxExec
  /\ env.maps[1].mask[1][1]

----------------------------------------------------------------------------
(* Properties of the cells.                                                *)

\* Every cell of the notebook has been executed.
AllCellsDone == err = NoErr /\ pc = Len(Cells(nb)) + 1

\* C3: the release files are read-only inputs: whatever prefix of the cells
\* has been executed, the files and their contents are as they were, and every
\* file operation performed is a directory listing or a read.
C3_ReleaseReadOnly ==
  /\ [][fs' = fs]_vars
  /\ [](\A i \in DOMAIN iolog : FileEffect(iolog[i].call) \in {"list", "read"})

C3_Witness ==
  /\ nb = 2
  /\ AllCellsDone
  /\ Len(iolog) = NMaps + 2
  /\ iolog[1].call = "ls"
  /\ iolog[Len(iolog)] = [call |-> "read_map", file |-> <<"dust", 1>>]
  /\ \A f \in DOMAIN fs : fs[f] = "ok"

\* The file list of cell k.
FileList(k) ==
  [i \in DOMAIN Cells(nb)[k].io |-> Cells(nb)[k].io[i].file]

\* C6: a failing read stops the cell with the library's own error, and the
\* name the cell was assigning is not bound to a partial result: a list of
\* maps is built from all of its files or not assigned, and the names bound
\* before keep their values.
C6_FailuresPropagate ==
  /\ [](\A t \in Targets :
          loaded[t] # <<>> =>
            /\ t \in names
            /\ \E k \in 1..(pc - 1) :
                 Cells(nb)[k].target = t /\ loaded[t] = FileList(k))
  /\ [](err.kind \notin {"none", "NameError"} =>
          /\ pc \in DOMAIN Cells(nb)
          /\ err.line = Cells(nb)[pc].line
          /\ fs[err.file] \in {"missing", "bad"}
          /\ err.kind = IF fs[err.file] = "missing" THEN "FileNotFoundError"
                        ELSE "IndexError"
          /\ iolog[Len(iolog)].file = err.file
          /\ acc = <<>>)
  /\ [][err = NoErr]_vars
  /\ [][err' # NoErr =>
          names' = names /\ loaded' = loaded /\ oplog' = oplog /\ fs' = fs]_vars

C6_Witness ==
  /\ nb = 2
  /\ err.kind = "FileNotFoundError"
  /\ err.file = <<"cmb", NMaps>>
  /\ err.line = 88
  /\ Len(iolog) = NMaps + 1
  /\ "maps" \notin names
  /\ loaded["maps"] = <<>>

\* The operations that give a map its first value.
Origin == {"read", "make", "derive"}
\* Before operation i, map v has had an operation of one of the kinds.
Earlier(i, v, kinds) ==
  \E j \in 1..(i - 1) : oplog[j].var = v /\ oplog[j].kind \in kinds

\* Every name a cell reads has been bound by an earlier cell.
NamesBoundBeforeUse ==
  /\ err.kind # "NameError"
  /\ (err = NoErr /\ pc \in DOMAIN Cells(nb)) =>
       Cells(nb)[pc].reads \subseteq names

\* C7 as stated: the cells run one after the other from the top, every name a
\* cell reads has been bound by an earlier cell, every map is read before it
\* is masked or combined, and masked or combined before it is plotted or
\* transformed to a power spectrum.
C7_MaskedBeforePlotted ==
  /\ NamesBoundBeforeUse
  /\ \A i \in DOMAIN oplog :
       /\ oplog[i].kind \in {"mask", "combine"} =>
            Earlier(i, oplog[i].var, Origin)
       /\ oplog[i].kind \in {"plot", "spectrum"} =>
            Earlier(i, oplog[i].var, {"mask", "combine"})

\* C7, amended: the cells run one after the other from the top, every name a
\* cell reads has been bound by an earlier cell, and every map is read from a
\* file, returned by the simulator or computed from such maps before it is
\* masked, combined, plotted or transformed to a power spectrum.
C7_SequentialCells ==
  /\ NamesBoundBeforeUse
  /\ \A i \in DOMAIN oplog :
       /\ oplog[i].kind \notin Origin => Earlier(i, oplog[i].var, Origin)
       /\ \A w \in oplog[i].from : Earlier(i, w, Origin)

C7_Witness ==
  /\ nb = 3
  /\ AllCellsDone
  /\ oplog[1] = Op("read", "maps", {})
  /\ oplog[2] = Op("plot", "maps", {})
  /\ "foregrounds_cmb" \in names

----------------------------------------------------------------------------
(* Properties of the path cells.                                           *)

\* The text of an nside and of a lower-cased telescope name, written out.
NsideText(ns) == CASE ns = 512 -> "512" [] ns = 4096 -> "4096"
TelescopeLowerText(t) == CASE t = <<"S", "A">> -> "sa" [] t = <<"L", "A">> -> "la"

\* The four decimal digits of n, most significant first.
FourDigits(n) ==
  Digit(n \div 1000) \o Digit((n \div 100) % 10) \o Digit((n \div 10) % 10)
    \o Digit(n % 10)

\* C1: for every nside, content, telescope, band and every num in 0..9999 the
\* resolved foreground/CMB path is
\* {nside}/{content}/NNNN/simonsobs_{content}_uKCMB_{telescope}{band}_nside{nside}_NNNN.fits
\* with NNNN the 4 digits of num, the same in the directory and the file name,
\* and the telescope lower-cased.
C1_ForegroundPath ==
  (call.template = "foreground" /\ call.kw.num < 10000) =>
    LET k == call.kw
        NNNN == FourDigits(k.num)
        tel == TelescopeLowerText(channel.telescope)
    IN  /\ Len(NNNN) = 4
        /\ call.path =
             NsideText(k.nside) \o "/" \o k.content \o "/" \o NNNN
             \o "/simonsobs_" \o k.content \o "_uKCMB_" \o tel \o k.band
             \o "_nside" \o NsideText(k.nside) \o "_" \o NNNN \o ".fits"

C1_Witness ==
  /\ call.template = "foreground"
  /\ call.kw.num = 42
  /\ channel.telescope = <<"S", "A">>
  /\ call.path = "512/cmb/0042/simonsobs_cmb_uKCMB_saUHF1_nside512_0042.fits"

\* The noise path written out from content, num, tube, band, nside, split and
\* nsplits.
NoisePathText(content, num, tube, band, ns, split, nsplits) ==
  content \o "/" \o FourDigits(num) \o "/simonsobs_" \o content \o "_uKCMB_"
    \o tube \o "_" \o band \o "_nside" \o NsideText(ns) \o "_"
    \o FourDigits(num) \o "_" \o Digit(split) \o "_of_" \o Digit(nsplits)
    \o ".fits"

\* C2: the resolved noise-release path is
\* {content}/NNNN/simonsobs_{content}_uKCMB_{tube}_{band}_nside{nside}_NNNN_{split}_of_{nsplits}.fits
\* and is the same whatever telescope argument is passed with the other seven.
C2_NoisePath ==
  (call.template = "noise" /\ call.kw.num < 10000) =>
    LET k == call.kw IN
    /\ call.path = NoisePathText(k.content, k.num, k.tube, k.band, k.nside,
                                 k.split, k.nsplits)
    /\ \A t \in {"SA", "LA", "sa", "la", ""} :
         Format(noise_filename_template, [k EXCEPT !.telescope = t]) = call.path

C2_Witness ==
  /\ call.template = "noise"
  /\ call.kw.telescope = "LA"
  /\ call.path = "noise/0007/simonsobs_noise_uKCMB_LT3_MFF1_nside4096_0007_3_of_4.fits"

\* C10: after the two file-list cells of notebook 3 have each run once,
\* filenames has exactly 5 entries for realization 0 of content noise of one
\* tube, band and nside: the full-mission file (split 1 of 1), then splits
\* 1, 2, 3, 4 of 4 in that order, pairwise distinct.
C10_NoiseFileList ==
  (runs.full = 1 /\ runs.splits = 1) =>
    LET Entry(split, nsplits) ==
          NoiseRelease \o "/" \o
          NoisePathText("noise", 0, channel.tube, channel.band, nside,
                        split, nsplits)
    IN  /\ Len(filenames) = 5
        /\ filenames[1] = Entry(1, 1)
        /\ \A i \in 1..4 : filenames[i + 1] = Entry(i, 4)
        /\ \A i, j \in 1..5 : i # j => filenames[i] # filenames[j]

C10_Witness ==
  /\ runs = [full |-> 1, splits |-> 1]
  /\ Len(filenames) = 5
  /\ filenames[5] =
       "/project/projectdirs/sobs/v4_sims/mbs/202006_noise/noise/0000/simonsobs_noise_uKCMB_ST2_UHF1_nside512_0000_4_of_4.fits"

====
